---- MODULE Spec2Model ----
(***************************************************************************)
(* PyStoG (pystog/pystog.py): merging of reciprocal-space datasets into    *)
(* one S(Q), transformation to a real-space function, optional Fourier     *)
(* filter and Lorch recomputation, final Keen normalisation.               *)
(*                                                                         *)
(* Numbers are integers.  numpy arrays are sequences of integers; a float  *)
(* division is the integer division \div (the data of the model are chosen *)
(* so that the conversions divide exactly; a mean rounds down).  The module *)
(* `transformer` (Converter, Transformer, FourierFilter) is not part of    *)
(* the sources: its entry points are modelled from the specification, and *)
(* the curve an entry point computes by numerical integration is kept as a *)
(* symbolic term over its arguments.                                       *)
(***************************************************************************)
EXTENDS Integers, Sequences, FiniteSets, TLC

VARIABLES
    kwargs,     \* the configuration the run was started with (JSON or CLI)
    stog,       \* the PyStoG instance: its mutable attributes
    pc,         \* position of the __main__ script
    fi,         \* read_all_data: index of the next file of self.files
    locals,     \* __main__: q, sofq, r, gofr, sq, gr_out
    events,     \* the effects so far: files written, entry points called, errors raised
    err,        \* the exception that ended the last call ("" when it returned)
    last,       \* the last method call: its name and its dataset argument
    ncalls,     \* number of method calls a client of the class has made
    heap,       \* caller-owned arrays: identity -> contents
    call        \* the last helper call: name, argument identities, heap before, result

vars == <<kwargs, stog, pc, fi, locals, events, err, last, ncalls, heap, call>>

(***************************************************************************)
(* Bounds of the model                                                     *)
(***************************************************************************)
MaxFiles == 2

MaxCalls == 4

\* helper calls: longest axis, largest sample and crop bound
MaxPts == 3

MaxQ == 4

\* uniformly spaced axes: largest first point, step and number of points
MaxX0 == 10

MaxD == 3

MaxN == 11

\* instances built from physical parameters: largest <b_coh>^2, Rmax, Rdelta
MaxB == 3

MaxRmax == 6

MaxRdelta == 4

(***************************************************************************)
(* Sequences of numbers                                                    *)
(***************************************************************************)
Min(a, b) == IF a <= b THEN a ELSE b

Max(a, b) == IF a >= b THEN a ELSE b

Range(s) == {s[i] : i \in DOMAIN s}

SetMin(S) == CHOOSE m \in S : \A n \in S : m <= n

SetMax(S) == CHOOSE m \in S : \A n \in S : m >= n

RECURSIVE SortedSeq(_)
SortedSeq(S) == IF S = {} THEN <<>> ELSE <<SetMin(S)>> \o SortedSeq(S \ {SetMin(S)})

RECURSIVE SumSeq(_)
SumSeq(s) == IF s = <<>> THEN 0 ELSE Head(s) + SumSeq(Tail(s))

StrictlyIncreasing(s) == \A i \in 1..(Len(s) - 1) : s[i] < s[i + 1]

(***************************************************************************)
(* Values of a curve: numbers (s = ""), or the symbolic term s of a curve  *)
(* computed by an entry point of the transformer module.                   *)
(***************************************************************************)
Num(seq) == [n |-> seq, s |-> ""]

Sym(term) == [n |-> <<>>, s |-> term]

IsNum(v) == v.s = ""

ValStr(v) == IF IsNum(v) THEN ToString(v.n) ELSE v.s

Unset == Num(<<>>)

(***************************************************************************)
(* Function kinds (transformer.RealSpaceChoices, ReciprocalSpaceChoices)   *)
(***************************************************************************)
RealSpaceChoices == {"g(r)", "G(r)", "GK(r)"}

ReciprocalSpaceChoices == {"S(Q)", "F(Q)", "FK(Q)", "DCS(Q)"}

(***************************************************************************)
(* PyStoG.__init__: attributes derived from the configuration              *)
(***************************************************************************)
XminInit == 100

XmaxInit == 0

real_space_function ==
    IF kwargs.hasRealSpaceFunction THEN kwargs.RealSpaceFunction ELSE "g(r)"

sq_title == "S(Q) Merged"

ft_title == "FT term"

sq_ft_title == "S(Q) FT"

fq_rmc_title == "F(Q) RMC"

gr_title == real_space_function \o " Merged"

gr_ft_title == real_space_function \o " FT"

gr_lorch_title == real_space_function \o " FT Lorched"

gr_rmc_title == "G(r) RMC"

stem_name == kwargs.StemName

density == kwargs.NumberDensity

bcoh_sqrd == kwargs.bcoh_sqrd

merging ==
    IF kwargs.hasMerging THEN kwargs.Merging ELSE [Offset |-> 0, Scale |-> 1]

Rdelta ==
    IF kwargs.hasRdelta THEN kwargs.Rdelta ELSE kwargs.Rmax \div kwargs.Rpoints

NewStoG ==
    [df_individuals |-> <<>>, df_sq_master |-> <<>>, df_gr_master |-> <<>>,
     xmin |-> XminInit, xmax |-> XmaxInit, dr |-> <<>>, hasDr |-> FALSE]

(***************************************************************************)
(* Effects and results of a call                                           *)
(***************************************************************************)
WriteEv(filename) == [kind |-> "write", name |-> filename, lorch |-> FALSE]

CallEv(entry, lorch) == [kind |-> "call", name |-> entry, lorch |-> lorch]

RaiseEv(e) == [kind |-> "raise", name |-> e, lorch |-> FALSE]

NoRet == [q |-> <<>>, sq |-> Unset, r |-> <<>>, gr |-> Unset]

Ok(self, ev, ret) == [self |-> self, ev |-> ev, ret |-> ret, err |-> ""]

Raise(self, ev, e) == [self |-> self, ev |-> ev \o <<RaiseEv(e)>>, ret |-> NoRet, err |-> e]

(***************************************************************************)
(* pandas data frames: a sequence of columns, each with its own index x    *)
(***************************************************************************)
Column(title, x, v) == [title |-> title, x |-> x, v |-> v]

DfIndex(df) == SortedSeq(UNION {Range(df[i].x) : i \in DOMAIN df})

DfEmpty(df) == Len(df) = 0 \/ DfIndex(df) = <<>>

HasColumn(df, title) == \E i \in DOMAIN df : df[i].title = title

GetColumn(df, title) == df[CHOOSE i \in DOMAIN df : df[i].title = title]

SetColumn(df, title, x, v) ==
    IF HasColumn(df, title)
    THEN [i \in DOMAIN df |-> IF df[i].title = title THEN Column(title, x, v) ELSE df[i]]
    ELSE Append(df, Column(title, x, v))

add_to_dataframe(x, y, df, title) == Append(df, Column(title, x, y))

(***************************************************************************)
(* transformer.Transformer / Converter: utilities and pointwise relations  *)
(***************************************************************************)
\* a cropping that takes its bounds for positions, x[min : max + 1]
apply_cropping_by_position(X, Y, lo, hi) ==
    LET keep == SelectSeq([i \in DOMAIN X |-> i], LAMBDA i : lo <= i - 1 /\ i - 1 <= hi)
    IN  [ok |-> keep /= <<>>,
         x  |-> [j \in DOMAIN keep |-> X[keep[j]]],
         y  |-> [j \in DOMAIN keep |-> Y[keep[j]]]]

\* apply_cropping(X, Y, min, max): the samples with min <= X <= max, in order;
\* no sample in the range (in particular min > max) is an EmptyRangeError.
apply_cropping(X, Y, lo, hi) ==
    LET keep == SelectSeq([i \in DOMAIN X |-> i], LAMBDA i : lo <= X[i] /\ X[i] <= hi)
    IN  [ok |-> keep /= <<>>,
         x  |-> [j \in DOMAIN keep |-> X[keep[j]]],
         y  |-> [j \in DOMAIN keep |-> Y[keep[j]]]]

\* an axis built upwards from the step: linspace(dx, x[-1], int(x[-1] / dx))
extend_axis_from_step(X) ==
    LET D    == X[2] - X[1]
        top  == X[Len(X)]
        n    == top \div D
    IN  [k \in 1..n |-> IF n = 1 THEN D ELSE D + ((k - 1) * (top - D)) \div (n - 1)]

\* _extend_axis_to_low_end(X): the axis with the step and the last point of
\* X that starts in (0, step]
extend_axis_to_low_end(X) ==
    LET D    == X[2] - X[1]
        top  == X[Len(X)]
        n    == (top + D - 1) \div D
    IN  [k \in 1..n |-> top - (n - k) * D]

\* Converter.F_to_S: S = F/Q + 1, undefined at Q = 0
F_to_S_defined(q) == 0 \notin Range(q)

\* a conversion that leaves out the constant term: S = F/Q
F_to_S_without_one(q, fq) == [i \in DOMAIN fq |-> fq[i] \div q[i]]

F_to_S(q, fq) == [i \in DOMAIN fq |-> fq[i] \div q[i] + 1]

\* the inverse relation, F = Q(S - 1)
S_to_F(q, sq) == [i \in DOMAIN sq |-> q[i] * (sq[i] - 1)]

\* Converter.FK_to_S: S = FK/<b_coh>^2 + 1
FK_to_S(q, fk, bcoh) == [i \in DOMAIN fk |-> fk[i] \div bcoh + 1]

\* Converter.DCS_to_S: S = (DCS - <b_tot^2>)/<b_coh>^2 + 1
DCS_to_S(q, dcs, bcoh, btot) == [i \in DOMAIN dcs |-> (dcs[i] - btot) \div bcoh + 1]

\* Transformer.S_to_g, S_to_G, S_to_GK: the real-space curve on the grid r,
\* a term over the arguments; an empty domain is fatal.
Transform(entry, q, sq, r, lorch, rho) ==
    [ok |-> q /= <<>> /\ r /= <<>>,
     r  |-> r,
     gr |-> Sym(entry \o "(" \o ToString(q) \o "," \o ValStr(sq) \o "," \o ToString(r)
                \o ",lorch=" \o ToString(lorch) \o ",rho=" \o rho \o ")")]

\* FourierFilter.g_using_S, G_using_S, GK_using_S: the artifact curve, the
\* filtered reciprocal-space curve and the filtered real-space curve, on the
\* grids they were given.
Filter(entry, r, gr, q, sq, cutoff, lorch, rho) ==
    LET a == "(" \o ToString(r) \o "," \o ValStr(gr) \o "," \o ToString(q) \o ","
             \o ValStr(sq) \o ",cutoff=" \o cutoff \o ",lorch="
             \o ToString(lorch) \o ",rho=" \o rho \o ")"
    IN  [ok    |-> q /= <<>> /\ r /= <<>>,
         q_ft  |-> q,
         sq_ft |-> Sym(entry \o ".ft" \o a),
         q     |-> q,
         sq    |-> Sym(entry \o ".sq" \o a),
         r     |-> r,
         gr    |-> Sym(entry \o ".gr" \o a)]

(***************************************************************************)
(* PyStoG: reading and merging                                             *)
(***************************************************************************)
scale(data, s) == [i \in DOMAIN data |-> s * data[i]]

offset(data, o) == [i \in DOMAIN data |-> data[i] + o]

\* the Y offset added before the scale is applied
apply_scales_and_offset_offset_first(x, y, yscale, yoffset, xoffset) ==
    [x |-> offset(x, xoffset), y |-> scale(offset(y, yoffset), yscale)]

apply_scales_and_offset(x, y, yscale, yoffset, xoffset) ==
    [x |-> offset(x, xoffset), y |-> offset(scale(y, yscale), yoffset)]

\* the crop bounds passed in the wrong order
add_dataset_crop_swapped(info) == apply_cropping(info.x, info.y, info.Qmax, info.Qmin)

\* add_dataset, line 127: the cropping of the raw samples
add_dataset_crop(info) == apply_cropping(info.x, info.y, info.Qmin, info.Qmax)

\* add_dataset, lines 133-138: the conversion chosen by the ReciprocalFunction tag
add_dataset_convert(kind, x, y) ==
    CASE kind = "F(Q)"   -> F_to_S(x, y)
      [] kind = "FK(Q)"  -> FK_to_S(x, y, bcoh_sqrd)
      [] kind = "DCS(Q)" -> DCS_to_S(x, y, bcoh_sqrd, kwargs.btot_sqrd)
      [] OTHER           -> y

add_dataset_entry(kind) ==
    CASE kind = "F(Q)"   -> <<CallEv("F_to_S", FALSE)>>
      [] kind = "FK(Q)"  -> <<CallEv("FK_to_S", FALSE)>>
      [] kind = "DCS(Q)" -> <<CallEv("DCS_to_S", FALSE)>>
      [] OTHER           -> <<>>

ColumnName(info) == "S(Q)_" \o ToString(info.index)

\* add_dataset, lines 128-143: what follows a cropping that returned
add_dataset_cropped(self, info, c) ==
    LET ev1  == <<CallEv("apply_cropping", FALSE)>>
        xy   == apply_scales_and_offset(c.x, c.y, info.Yscale, info.Yoffset, info.Xoffset)
        kind == info.ReciprocalFunction
        y    == add_dataset_convert(kind, xy.x, xy.y)
        df   == Column(ColumnName(info), xy.x, Num(y))
    IN  IF kind = "F(Q)" /\ ~F_to_S_defined(xy.x)
        THEN Raise(self, ev1 \o add_dataset_entry(kind), "DivideByZero")
        ELSE IF kind = "DCS(Q)" /\ ~kwargs.hasBtot
        THEN Raise(self, ev1, "AttributeError: btot_sqrd")
        ELSE Ok([self EXCEPT !.xmin = Min(@, SetMin(Range(xy.x))),
                             !.xmax = Max(@, SetMax(Range(xy.x))),
                             !.df_individuals = Append(@, df)],
                ev1 \o add_dataset_entry(kind),
                [NoRet EXCEPT !.q = xy.x, !.sq = Num(y)])

\* a cropping that returns an empty curve, which add_dataset stores as a column
add_dataset_keep_empty(self, info) ==
    LET c == add_dataset_crop(info)
    IN  IF ~c.ok
        THEN Ok([self EXCEPT !.df_individuals =
                                 Append(@, Column(ColumnName(info), <<>>, Num(<<>>)))],
                <<CallEv("apply_cropping", FALSE)>>, NoRet)
        ELSE add_dataset_cropped(self, info, c)

add_dataset(self, info) ==
    LET c == add_dataset_crop(info)
    IN  IF ~c.ok THEN Raise(self, <<CallEv("apply_cropping", FALSE)>>, "EmptyRangeError")
        ELSE add_dataset_cropped(self, info, c)

\* a mean that counts a missing sample as 0: the sum over all the columns
MeanAt_over_all_columns(df, Q) ==
    LET present == SelectSeq([i \in DOMAIN df |-> i], LAMBDA i : Q \in Range(df[i].x))
        at(i)   == df[i].v.n[CHOOSE j \in DOMAIN df[i].x : df[i].x[j] = Q]
    IN  SumSeq([k \in DOMAIN present |-> at(present[k])]) \div Len(df)

\* DataFrame.mean(axis=1): at every Q of the joint index, the mean of the
\* columns that have a sample there (rounded down where it is no integer)
MeanAt(df, Q) ==
    LET present == SelectSeq([i \in DOMAIN df |-> i], LAMBDA i : Q \in Range(df[i].x))
        at(i)   == df[i].v.n[CHOOSE j \in DOMAIN df[i].x : df[i].x[j] = Q]
    IN  SumSeq([k \in DOMAIN present |-> at(present[k])]) \div Len(present)

merge_data(self) ==
    LET x  == DfIndex(self.df_individuals)
        y  == [i \in DOMAIN x |-> MeanAt(self.df_individuals, x[i])]
        xy == apply_scales_and_offset(x, y, merging.Scale, merging.Offset, 0)
    IN  Ok([self EXCEPT !.df_sq_master = SetColumn(@, sq_title, x, Num(xy.y))], <<>>, NoRet)

(***************************************************************************)
(* PyStoG: transform utilities                                             *)
(***************************************************************************)
\* numpy.arange(start, stop, step) for step > 0
arange(start, stop, step) ==
    LET n == IF stop > start THEN (stop - start + step - 1) \div step ELSE 0
    IN  [k \in 1..n |-> start + (k - 1) * step]

create_dr(self) ==
    IF Rdelta = 0 THEN Raise(self, <<>>, "ZeroDivisionError")
    ELSE Ok([self EXCEPT !.dr = arange(Rdelta, kwargs.Rmax + Rdelta, Rdelta),
                         !.hasDr = TRUE], <<>>, NoRet)

(***************************************************************************)
(* Floating point of qmin_correction: fixed point, 1.0 = Unit              *)
(***************************************************************************)
Unit == 1000

Pi == 3142

FMul(a, b) == (a * b) \div Unit

FDiv(a, b) == (a * Unit) \div b

\* sin on [0, pi/2], by its Taylor polynomial of degree 7
SinQ(a) ==
    LET a2 == FMul(a, a)
        a3 == FMul(a2, a)
        a5 == FMul(a3, a2)
        a7 == FMul(a5, a2)
    IN  a - a3 \div 6 + a5 \div 120 - a7 \div 5040

Sin(x) ==
    LET a == x % (2 * Pi)
    IN  IF 2 * a <= Pi THEN SinQ(a)
        ELSE IF a <= Pi THEN SinQ(Pi - a)
        ELSE IF 2 * a <= 3 * Pi THEN -SinQ(a - Pi)
        ELSE -SinQ(2 * Pi - a)

Cos(x) == Sin(x + Pi \div 2)

\* qmin_correction, lines 208-224: the correction term at r
CorrectionAt(qmin, qmax, sofq_qmin, r, lorch) ==
    LET PiOverQmax == FDiv(Pi, qmax)
        v    == FMul(qmin, r)
        vm   == FMul(qmin, r - PiOverQmax)
        vp   == FMul(qmin, r + PiOverQmax)
        term1 == FDiv(FMul(vm, Sin(vm)) + Cos(vm) - Unit,
                      FMul(r - PiOverQmax, r - PiOverQmax))
        term2 == FDiv(FMul(vp, Sin(vp)) + Cos(vp) - Unit,
                      FMul(r + PiOverQmax, r + PiOverQmax))
        F1   == IF lorch THEN FDiv(term1 - term2, 2 * PiOverQmax)
                ELSE FDiv(FDiv(FDiv(2 * FMul(v, Sin(v)) - FMul(FMul(v, v) - 2 * Unit, Cos(v))
                                    - 2 * Unit, r), r), r)
        F2   == IF lorch THEN FDiv(FDiv(Sin(vm), r - PiOverQmax)
                                   - FDiv(Sin(vp), r + PiOverQmax), 2 * PiOverQmax)
                ELSE FDiv(FDiv(Sin(v) - FMul(v, Cos(v)), r), r)
    IN  FMul(FDiv(2 * Unit, Pi), FDiv(FMul(F1, sofq_qmin), qmin) - F2)

\* the array `correction` after the loop of lines 206-224
Correction(q, sofq, dr, gofr, lorch) ==
    [i \in DOMAIN gofr |->
        IF i <= Len(dr)
        THEN CorrectionAt(SetMin(Range(q)), SetMax(Range(q)), sofq[1], dr[i], lorch)
        ELSE 0]

(***************************************************************************)
(* PyStoG helpers on arrays of the caller.  h is the heap: array identity  *)
(* -> contents; a new array gets the next identity.  The result names the  *)
(* heap after the call and the identities of the arrays returned.          *)
(***************************************************************************)
HeapResult(h, rets, val, e) == [heap |-> h, rets |-> rets, val |-> val, err |-> e]

scale_call(h, data, s) ==
    HeapResult(Append(h, scale(h[data], s)), <<Len(h) + 1>>, 0, "")

offset_call(h, data, o) ==
    HeapResult(Append(h, offset(h[data], o)), <<Len(h) + 1>>, 0, "")

apply_scales_and_offset_call(h, x, y, yscale, yoffset, xoffset) ==
    LET a == scale_call(h, y, yscale)
        b == offset_call(a.heap, a.rets[1], yoffset)
        c == offset_call(b.heap, x, xoffset)
    IN  HeapResult(c.heap, <<c.rets[1], b.rets[1]>>, 0, "")

ISqrt(n) == CHOOSE k \in 0..n : k * k <= n /\ n < (k + 1) * (k + 1)

\* the default of lowR_mean_square's limit, 1.01, on an integer grid
LowRLimit == 1

lowR_mean_square_call(h, dr, gofr, limit) ==
    IF Len(h[dr]) /= Len(h[gofr]) THEN HeapResult(h, <<>>, 0, "IndexError")
    ELSE LET keep == SelectSeq([i \in DOMAIN h[dr] |-> i], LAMBDA i : h[dr][i] <= limit)
             sel  == [j \in DOMAIN keep |-> h[gofr][keep[j]]]
             sq   == [j \in DOMAIN sel |-> sel[j] * sel[j]]
         IN  HeapResult(Append(Append(h, sel), sq), <<>>, ISqrt(SumSeq(sq)), "")

\* qmin_correction, lines 200-229: `gofr += correction` adds in place and the
\* array returned is gofr itself
qmin_correction_call(h, q, sofq, dr, gofr, lorch) ==
    IF Len(h[dr]) > Len(h[gofr])
    THEN HeapResult(Append(h, [i \in DOMAIN h[gofr] |-> 0]), <<>>, 0, "IndexError")
    ELSE LET corr == Correction(h[q], h[sofq], h[dr], h[gofr], lorch)
             sum  == [i \in DOMAIN h[gofr] |-> h[gofr][i] + corr[i]]
         IN  HeapResult(Append([h EXCEPT ![gofr] = sum], corr), <<gofr>>, 0, "")

(***************************************************************************)
(* PyStoG: output utilities                                                *)
(***************************************************************************)
\* write_out_df: nothing for an empty frame; the file is opened (and its
\* header written) before to_csv looks the column up
write_out_df(df, col, filename) ==
    IF DfEmpty(df) THEN [ev |-> <<>>, err |-> ""]
    ELSE IF ~HasColumn(df, col) THEN [ev |-> <<WriteEv(filename)>>, err |-> "KeyError"]
    ELSE [ev |-> <<WriteEv(filename)>>, err |-> ""]

WriteResult(self, w) == IF w.err = "" THEN Ok(self, w.ev, NoRet) ELSE Raise(self, w.ev, w.err)

write_out_merged_sq(self) ==
    WriteResult(self, write_out_df(self.df_sq_master, sq_title, stem_name \o ".sq"))

write_out_merged_gr(self) ==
    WriteResult(self, write_out_df(self.df_gr_master, gr_title, stem_name \o ".gr"))

write_out_ft(self) ==
    WriteResult(self, write_out_df(self.df_sq_master, ft_title, "ft.dat"))

write_out_ft_sq(self) ==
    WriteResult(self, write_out_df(self.df_sq_master, sq_ft_title, stem_name \o "_ft.sq"))

write_out_ft_gr(self) ==
    WriteResult(self, write_out_df(self.df_gr_master, gr_ft_title, stem_name \o "_ft.gr"))

write_out_lorched_gr(self) ==
    WriteResult(self, write_out_df(self.df_gr_master, gr_lorch_title,
                                   stem_name \o "_ft_lorched.gr"))

write_out_rmc_fq(self) ==
    WriteResult(self, write_out_df(self.df_sq_master, fq_rmc_title, stem_name \o "_rmc.fq"))

write_out_rmc_gr(self) ==
    WriteResult(self, write_out_df(self.df_gr_master, gr_rmc_title, stem_name \o "_rmc.gr"))

\* a method followed by the rest of its caller: the rest runs only if it returned
Then(a, rest(_)) ==
    IF a.err /= "" THEN a
    ELSE LET b == rest(a.self) IN [b EXCEPT !.ev = a.ev \o b.ev]

(***************************************************************************)
(* PyStoG: Fourier filter, Lorch recomputation, Keen normalisation         *)
(***************************************************************************)
\* self.fourier_filter_cutoff (line 80), as the filter entry point gets it
fourier_filter_cutoff ==
    IF kwargs.CutoffIsNone THEN "None" ELSE ToString(kwargs.Cutoff)

\* a filter that passes the Lorch flag of the configuration on
fourier_filter_lorch_flag == kwargs.LorchFlag

\* the lorch keyword fourier_filter passes to the filter entry point (line 232)
fourier_filter_lorch == FALSE

\* the entry point chosen by real_space_function (lines 242-249)
fourier_filter_entry(rsf) ==
    CASE rsf = "g(r)"  -> "g_using_S"
      [] rsf = "G(r)"  -> "G_using_S"
      [] rsf = "GK(r)" -> "GK_using_S"
      [] OTHER         -> ""

\* fourier_filter falling back to the g(r) entry point for an unknown function
fourier_filter_fallback(self) ==
    IF ~kwargs.hasFourierFilter THEN Raise(self, <<>>, "AttributeError: fourier_filter_cutoff")
    ELSE IF ~HasColumn(self.df_gr_master, gr_title) \/ ~HasColumn(self.df_sq_master, sq_title)
    THEN Raise(self, <<>>, "KeyError")
    ELSE
    LET g     == GetColumn(self.df_gr_master, gr_title)
        s     == GetColumn(self.df_sq_master, sq_title)
        f     == Filter("g_using_S", g.x, g.v, s.x, s.v, fourier_filter_cutoff, FALSE,
                        ToString(density))
    IN  Ok([self EXCEPT !.df_sq_master = add_to_dataframe(f.q, f.sq, @, sq_ft_title),
                        !.df_gr_master = add_to_dataframe(f.r, f.gr, @, gr_ft_title)],
           <<CallEv("g_using_S", FALSE), WriteEv(stem_name \o "_ft.sq")>>,
           [q |-> f.q, sq |-> f.sq, r |-> f.r, gr |-> f.gr])

fourier_filter(self) ==
    IF ~kwargs.hasFourierFilter THEN Raise(self, <<>>, "AttributeError: fourier_filter_cutoff")
    ELSE IF ~HasColumn(self.df_gr_master, gr_title) \/ ~HasColumn(self.df_sq_master, sq_title)
    THEN Raise(self, <<>>, "KeyError")
    ELSE
    LET g     == GetColumn(self.df_gr_master, gr_title)
        s     == GetColumn(self.df_sq_master, sq_title)
        entry == fourier_filter_entry(real_space_function)
        f     == Filter(entry, g.x, g.v, s.x, s.v, fourier_filter_cutoff,
                        fourier_filter_lorch, ToString(density))
        cev   == <<CallEv(entry, fourier_filter_lorch)>>
        s1    == [self EXCEPT !.df_sq_master = add_to_dataframe(f.q_ft, f.sq_ft, @, ft_title)]
        add2(o) == Ok([o EXCEPT !.df_sq_master = add_to_dataframe(f.q, f.sq, @, sq_ft_title)],
                      <<>>, NoRet)
        add3(o) == Ok([o EXCEPT !.df_gr_master = add_to_dataframe(f.r, f.gr, @, gr_ft_title)],
                      <<>>, NoRet)
        ret(o)  == Ok(o, <<>>, [q |-> f.q, sq |-> f.sq, r |-> f.r, gr |-> f.gr])
    IN  IF entry = "" THEN Raise(self, <<>>, "Unknown real space function")
        ELSE IF ~f.ok THEN Raise(self, cev, "DomainError")
        ELSE IF kwargs.CutoffIsNone /\ ~kwargs.FilterAcceptsNone
        THEN Raise(self, cev, "TypeError")
        ELSE Then(Then(Then(Then(Then(Then(Ok(s1, cev, NoRet),
                 write_out_ft), add2), write_out_ft_sq), add3), write_out_ft_gr), ret)

\* the entry point and its density argument chosen by real_space_function
apply_lorch_entry(rsf) ==
    CASE rsf = "g(r)"  -> "S_to_g"
      [] rsf = "G(r)"  -> "S_to_G"
      [] rsf = "GK(r)" -> "S_to_GK"
      [] OTHER         -> ""

transform_rho(rsf) == IF rsf = "G(r)" THEN "None" ELSE ToString(density)

apply_lorch(self, q, sq, r) ==
    LET entry == apply_lorch_entry(real_space_function)
        t     == Transform(entry, q, sq, r, TRUE, transform_rho(real_space_function))
        cev   == <<CallEv(entry, TRUE)>>
        s1    == [self EXCEPT !.df_gr_master = add_to_dataframe(t.r, t.gr, @, gr_lorch_title)]
        ret(o) == Ok(o, <<>>, [NoRet EXCEPT !.r = t.r, !.gr = t.gr])
    IN  IF entry = "" THEN Raise(self, <<>>, "Unknown real space function")
        ELSE IF ~t.ok THEN Raise(self, cev, "DomainError")
        ELSE Then(Then(Ok(s1, cev, NoRet), write_out_lorched_gr), ret)

\* a normalisation that leaves out the constant term: bcoh_sqrd * v
Keen_without_one(v) ==
    IF IsNum(v) THEN Num([i \in DOMAIN v.n |-> bcoh_sqrd * v.n[i]])
    ELSE Sym(ToString(bcoh_sqrd) \o "*(" \o v.s \o ")")

\* bcoh_sqrd * (v - 1), pointwise
Keen(v) ==
    IF IsNum(v) THEN Num([i \in DOMAIN v.n |-> bcoh_sqrd * (v.n[i] - 1)])
    ELSE Sym(ToString(bcoh_sqrd) \o "*(" \o v.s \o "-1)")

\* add_keen_fq writing through the writer of the merged S(Q)
add_keen_fq_wrong_writer(self, q, sq) ==
    Then(Ok([self EXCEPT !.df_sq_master = add_to_dataframe(q, Keen(sq), @, fq_rmc_title)],
            <<>>, NoRet), write_out_merged_sq)

add_keen_fq(self, q, sq) ==
    Then(Ok([self EXCEPT !.df_sq_master = add_to_dataframe(q, Keen(sq), @, fq_rmc_title)],
            <<>>, NoRet), write_out_rmc_fq)

add_keen_gr(self, r, gr_out) ==
    Then(Ok([self EXCEPT !.df_gr_master = add_to_dataframe(r, Keen(gr_out), @, gr_rmc_title)],
            <<>>, NoRet), write_out_rmc_gr)

(***************************************************************************)
(* __main__, lines 497-508: the initial S(Q) -> real space transform       *)
(***************************************************************************)
main_transform(self, q, sofq) ==
    LET entry  == apply_lorch_entry(real_space_function)
        go(o)  ==
            LET t == Transform(entry, q, sofq, o.dr, FALSE, transform_rho(real_space_function))
            IN  IF entry = "" THEN Raise(o, <<>>, "Unknown real space function")
                ELSE IF ~t.ok THEN Raise(o, <<CallEv(entry, FALSE)>>, "DomainError")
                ELSE Ok([o EXCEPT !.df_gr_master = SetColumn(@, gr_title, t.r, t.gr)],
                        <<CallEv(entry, FALSE)>>, [NoRet EXCEPT !.r = t.r, !.gr = t.gr])
    IN  Then(create_dr(self), go)

(***************************************************************************)
(* Configurations and input files of the model                             *)
(***************************************************************************)
FileInfo(kind, x, y, qmin, qmax, yscale, yoffset, xoffset) ==
    [ReciprocalFunction |-> kind, x |-> x, y |-> y, Qmin |-> qmin, Qmax |-> qmax,
     Yscale |-> yscale, Yoffset |-> yoffset, Xoffset |-> xoffset, index |-> 0]

\* every kind of dataset, a tag that is no kind, a partial crop with an X
\* offset, a crop range holding no sample, and inverted crop bounds
FileChoices ==
    { FileInfo("S(Q)",   <<1, 2, 3>>, <<1, 2, 3>>, 1, 3, 2, 2, 0),
      FileInfo("S(Q)",   <<1, 2, 3>>, <<4, 6, 8>>, 2, 3, 1, 0, 1),
      FileInfo("F(Q)",   <<1, 2, 3>>, <<1, 4, 9>>, 1, 2, 1, 0, 0),
      FileInfo("FK(Q)",  <<1, 2, 3>>, <<2, 4, 6>>, 1, 3, 1, 0, 0),
      FileInfo("DCS(Q)", <<1, 2, 3>>, <<3, 5, 7>>, 1, 3, 1, 0, 0),
      FileInfo("X(Q)",   <<1, 2, 3>>, <<5, 6, 7>>, 1, 3, 1, 0, 0),
      FileInfo("S(Q)",   <<1, 2, 3>>, <<2, 4, 6>>, 5, 9, 1, 0, 0),
      FileInfo("S(Q)",   <<1, 2, 3>>, <<2, 4, 6>>, 3, 1, 1, 0, 0) }

FileLists == UNION {[1..n -> FileChoices] : n \in 0..MaxFiles}

\* configurations loaded from a JSON file (lines 473-476): optional keys may
\* be missing.  FilterAcceptsNone is no key: it says what the filter entry
\* points of the transformer module do with a cutoff that is None, return or
\* raise, which the sources do not tell.
JsonConfigs ==
    { [cli |-> FALSE, Files |-> fs,
       hasRealSpaceFunction |-> rsf /= "", RealSpaceFunction |-> rsf,
       hasFourierFilter |-> ff, Cutoff |-> 1, CutoffIsNone |-> FALSE,
       FilterAcceptsNone |-> TRUE,
       LorchFlag |-> lf, PlotFlag |-> FALSE,
       hasBtot |-> bt, btot_sqrd |-> 1, bcoh_sqrd |-> 2,
       hasMerging |-> mg, Merging |-> [Offset |-> 1, Scale |-> 2],
       NumberDensity |-> 1, StemName |-> "merged",
       Rmax |-> 3, Rpoints |-> 3, hasRdelta |-> FALSE, Rdelta |-> 1] :
      fs \in FileLists, rsf \in {"", "G(r)", "GK(r)", "D(r)"},
      ff \in BOOLEAN, lf \in BOOLEAN, bt \in BOOLEAN, mg \in BOOLEAN }

\* the command lines of the model (argparse, lines 430-470): without
\* --fourier-filter-cutoff the argument is None, --merging defaults to 0 1,
\* --bcoh_sqrd and --btot_sqrd are given, --Rdelta is not
CliArgs ==
    { [filenames |-> fs, real_space_function |-> rsf,
       hasCutoff |-> hc, fourier_filter_cutoff |-> 1, filterAcceptsNone |-> an,
       lorch_flag |-> lf, plot |-> FALSE,
       btot_sqrd |-> 1, bcoh_sqrd |-> 2, merging |-> <<0, 1>>,
       density |-> 1, stem_name |-> "merged",
       Rmax |-> 3, Rpoints |-> 3, hasRdelta |-> FALSE, Rdelta |-> 1] :
      fs \in FileLists, rsf \in {"g(r)", "GK(r)"},
      hc \in BOOLEAN, an \in BOOLEAN, lf \in BOOLEAN }

\* parser_cli_args, lines 12-42: every key but Rdelta is always set
parser_cli_args(args) ==
    [cli |-> TRUE, Files |-> args.filenames,
     hasRealSpaceFunction |-> TRUE, RealSpaceFunction |-> args.real_space_function,
     hasFourierFilter |-> TRUE, Cutoff |-> args.fourier_filter_cutoff,
     CutoffIsNone |-> ~args.hasCutoff,
     FilterAcceptsNone |-> (args.hasCutoff \/ args.filterAcceptsNone),
     LorchFlag |-> args.lorch_flag, PlotFlag |-> args.plot,
     hasBtot |-> TRUE, btot_sqrd |-> args.btot_sqrd, bcoh_sqrd |-> args.bcoh_sqrd,
     hasMerging |-> TRUE, Merging |-> [Offset |-> args.merging[1], Scale |-> args.merging[2]],
     NumberDensity |-> args.density, StemName |-> args.stem_name,
     Rmax |-> args.Rmax, Rpoints |-> args.Rpoints,
     hasRdelta |-> args.hasRdelta, Rdelta |-> args.Rdelta]

Configs == JsonConfigs \cup {parser_cli_args(a) : a \in CliArgs}

NoLocals ==
    [q |-> <<>>, sofq |-> Unset, r |-> <<>>, gofr |-> Unset, sq |-> Unset, gr_out |-> Unset]

NoLast == [op |-> "", info |-> FileInfo("", <<>>, <<>>, 0, 0, 0, 0, 0)]

NoCall == [op |-> ""]

(***************************************************************************)
(* The __main__ script, lines 482-530                                      *)
(***************************************************************************)
Init ==
    /\ kwargs \in Configs
    /\ stog = NewStoG
    /\ pc = "read"
    /\ fi = 1
    /\ locals = NoLocals
    /\ events = <<>>
    /\ err = ""
    /\ last = NoLast
    /\ ncalls = 0
    /\ heap = <<>>
    /\ call = NoCall

\* the state after a method call of the script: an exception ends the run
Step(res, next) ==
    /\ stog' = res.self
    /\ events' = events \o res.ev
    /\ err' = res.err
    /\ pc' = IF res.err = "" THEN next ELSE "failed"

\* read_all_data, lines 107-109: read_dataset and add_dataset of the next file
MainRead ==
    /\ pc = "read"
    /\ fi <= Len(kwargs.Files)
    /\ LET info == [kwargs.Files[fi] EXCEPT !.index = fi - 1]
       IN  /\ Step(add_dataset(stog, info), "read")
           /\ last' = [op |-> "add_dataset", info |-> info]
    /\ fi' = fi + 1
    /\ UNCHANGED <<kwargs, locals, ncalls, heap, call>>

\* read_all_data returns (no file, or the loop is over); merge_data, line 485
MainMerge ==
    /\ pc = "read"
    /\ fi > Len(kwargs.Files)
    /\ Step(merge_data(stog), "write_sq")
    /\ last' = [NoLast EXCEPT !.op = "merge_data"]
    /\ UNCHANGED <<kwargs, fi, locals, ncalls, heap, call>>

\* lines 486-490: write_out_merged_sq; q and sofq are the merged curve
MainWriteSq ==
    /\ pc = "write_sq"
    /\ Step(write_out_merged_sq(stog), "transform")
    /\ LET m == GetColumn(stog.df_sq_master, sq_title)
       IN  locals' = [locals EXCEPT !.q = m.x, !.sofq = m.v]
    /\ last' = [NoLast EXCEPT !.op = "write_out_merged_sq"]
    /\ UNCHANGED <<kwargs, fi, ncalls, heap, call>>

\* lines 497-508: create_dr and the initial transform
MainTransform ==
    /\ pc = "transform"
    /\ LET res == main_transform(stog, locals.q, locals.sofq)
       IN  /\ Step(res, "write_gr")
           /\ locals' = IF res.err = "" THEN [locals EXCEPT !.r = res.ret.r, !.gofr = res.ret.gr]
                        ELSE locals
    /\ last' = [NoLast EXCEPT !.op = "transform"]
    /\ UNCHANGED <<kwargs, fi, ncalls, heap, call>>

\* lines 509-518: write_out_merged_gr; sq and gr_out if no Fourier filter
MainWriteGr ==
    /\ pc = "write_gr"
    /\ Step(write_out_merged_gr(stog), "filter")
    /\ locals' = [locals EXCEPT !.sq = GetColumn(stog.df_sq_master, sq_title).v,
                                !.gr_out = locals.gofr]
    /\ last' = [NoLast EXCEPT !.op = "write_out_merged_gr"]
    /\ UNCHANGED <<kwargs, fi, ncalls, heap, call>>

\* a script that calls fourier_filter and drops what it returns
MainFilter_drops_result ==
    /\ pc = "filter"
    /\ IF kwargs.hasFourierFilter
       THEN /\ Step(fourier_filter(stog), "lorch")
            /\ last' = [NoLast EXCEPT !.op = "fourier_filter"]
       ELSE /\ pc' = "lorch"
            /\ last' = [NoLast EXCEPT !.op = "skip_filter"]
            /\ UNCHANGED <<stog, events, err>>
    /\ UNCHANGED <<kwargs, fi, locals, ncalls, heap, call>>

\* lines 521-522: the Fourier filter, if "FourierFilter" is a key of kwargs
MainFilter ==
    /\ pc = "filter"
    /\ IF kwargs.hasFourierFilter
       THEN LET res == fourier_filter(stog)
            IN  /\ Step(res, "lorch")
                /\ locals' = IF res.err = ""
                             THEN [locals EXCEPT !.q = res.ret.q, !.sq = res.ret.sq,
                                                 !.r = res.ret.r, !.gr_out = res.ret.gr]
                             ELSE locals
                /\ last' = [NoLast EXCEPT !.op = "fourier_filter"]
       ELSE /\ pc' = "lorch"
            /\ last' = [NoLast EXCEPT !.op = "skip_filter"]
            /\ UNCHANGED <<stog, events, err, locals>>
    /\ UNCHANGED <<kwargs, fi, ncalls, heap, call>>

\* lines 525-526: the Lorch recomputation, if LorchFlag
MainLorch ==
    /\ pc = "lorch"
    /\ IF kwargs.LorchFlag
       THEN LET res == apply_lorch(stog, locals.q, locals.sq, locals.r)
            IN  /\ Step(res, "keen_fq")
                /\ locals' = IF res.err = ""
                             THEN [locals EXCEPT !.r = res.ret.r, !.gr_out = res.ret.gr]
                             ELSE locals
                /\ last' = [NoLast EXCEPT !.op = "apply_lorch"]
       ELSE /\ pc' = "keen_fq"
            /\ last' = [NoLast EXCEPT !.op = "skip_lorch"]
            /\ UNCHANGED <<stog, events, err, locals>>
    /\ UNCHANGED <<kwargs, fi, ncalls, heap, call>>

\* line 529
MainKeenFq ==
    /\ pc = "keen_fq"
    /\ Step(add_keen_fq(stog, locals.q, locals.sq), "keen_gr")
    /\ last' = [NoLast EXCEPT !.op = "add_keen_fq"]
    /\ UNCHANGED <<kwargs, fi, locals, ncalls, heap, call>>

\* line 530
MainKeenGr ==
    /\ pc = "keen_gr"
    /\ Step(add_keen_gr(stog, locals.r, locals.gr_out), "done")
    /\ last' = [NoLast EXCEPT !.op = "add_keen_gr"]
    /\ UNCHANGED <<kwargs, fi, locals, ncalls, heap, call>>

Next ==
    \/ MainRead
    \/ MainMerge
    \/ MainWriteSq
    \/ MainTransform
    \/ MainWriteGr
    \/ MainFilter
    \/ MainLorch
    \/ MainKeenFq
    \/ MainKeenGr

Spec == Init /\ [][Next]_vars

(***************************************************************************)
(* A client of the class: the methods of one PyStoG instance called in any *)
(* order, MaxCalls times.  The client owns the curves it passes in.        *)
(***************************************************************************)
ApiConfigs ==
    {c \in Configs : c.Files = <<>> /\ ~c.LorchFlag /\ ~c.hasMerging /\ c.hasBtot}

ApiInfos ==
    {i \in FileChoices : i.ReciprocalFunction = "S(Q)" /\ i.Yscale = 1 /\ i.Qmin /= 3}

\* a reciprocal-space curve and a real-space curve of the client
ApiCurve == [q |-> <<1, 2>>, sq |-> Num(<<2, 3>>), r |-> <<1, 2, 3>>, gr |-> Num(<<0, 1, 2>>)]

InitApi ==
    /\ kwargs \in ApiConfigs
    /\ stog = NewStoG
    /\ pc = "api"
    /\ fi = 1
    /\ locals = NoLocals
    /\ events = <<>>
    /\ err = ""
    /\ last = NoLast
    /\ ncalls = 0
    /\ heap = <<>>
    /\ call = NoCall

\* the state after the client's call op: an exception leaves the instance usable
ApiStep(op, res) ==
    /\ pc = "api"
    /\ ncalls < MaxCalls
    /\ ncalls' = ncalls + 1
    /\ stog' = res.self
    /\ events' = events \o res.ev
    /\ err' = res.err
    /\ last' = [NoLast EXCEPT !.op = op]
    /\ UNCHANGED <<kwargs, pc, fi, heap, call>>

ApiAddDataset ==
    \E i \in ApiInfos :
        LET info == [i EXCEPT !.index = Len(stog.df_individuals)]
            res  == add_dataset(stog, info)
        IN  /\ pc = "api"
            /\ ncalls < MaxCalls
            /\ ncalls' = ncalls + 1
            /\ stog' = res.self
            /\ events' = events \o res.ev
            /\ err' = res.err
            /\ last' = [op |-> "add_dataset", info |-> info]
            /\ UNCHANGED <<kwargs, pc, fi, locals, heap, call>>

ApiMergeData ==
    /\ ApiStep("merge_data", merge_data(stog))
    /\ UNCHANGED locals

\* the client does what lines 489-508 of __main__ do
ApiTransform ==
    IF ~HasColumn(stog.df_sq_master, sq_title)
    THEN /\ ApiStep("transform", Raise(stog, <<>>, "KeyError"))
         /\ UNCHANGED locals
    ELSE LET m   == GetColumn(stog.df_sq_master, sq_title)
             res == main_transform(stog, m.x, m.v)
         IN  /\ ApiStep("transform", res)
             /\ locals' = IF res.err /= "" THEN [locals EXCEPT !.q = m.x, !.sofq = m.v]
                          ELSE [locals EXCEPT !.q = m.x, !.sofq = m.v, !.sq = m.v,
                                              !.r = res.ret.r, !.gofr = res.ret.gr,
                                              !.gr_out = res.ret.gr]

\* the client stores a real-space curve of its own, as lines 507-508 do
ApiSetGr ==
    /\ ApiStep("set_gr", Ok([stog EXCEPT !.df_gr_master =
                                SetColumn(@, gr_title, ApiCurve.r, ApiCurve.gr)], <<>>, NoRet))
    /\ locals' = [locals EXCEPT !.r = ApiCurve.r, !.gofr = ApiCurve.gr, !.gr_out = ApiCurve.gr]

ApiFourierFilter ==
    LET res == fourier_filter(stog)
    IN  /\ ApiStep("fourier_filter", res)
        /\ locals' = IF res.err /= "" THEN locals
                     ELSE [locals EXCEPT !.q = res.ret.q, !.sq = res.ret.sq,
                                         !.r = res.ret.r, !.gr_out = res.ret.gr]

ApiApplyLorch ==
    LET res == apply_lorch(stog, ApiCurve.q, ApiCurve.sq, ApiCurve.r)
    IN  /\ ApiStep("apply_lorch", res)
        /\ locals' = IF res.err /= "" THEN locals
                     ELSE [locals EXCEPT !.r = res.ret.r, !.gr_out = res.ret.gr]

ApiAddKeenFq ==
    /\ ApiStep("add_keen_fq", add_keen_fq(stog, ApiCurve.q, ApiCurve.sq))
    /\ UNCHANGED locals

ApiAddKeenGr ==
    /\ ApiStep("add_keen_gr", add_keen_gr(stog, ApiCurve.r, ApiCurve.gr))
    /\ UNCHANGED locals

NextApi ==
    \/ ApiAddDataset
    \/ ApiMergeData
    \/ ApiTransform
    \/ ApiSetGr
    \/ ApiFourierFilter
    \/ ApiApplyLorch
    \/ ApiAddKeenFq
    \/ ApiAddKeenGr

SpecApi == InitApi /\ [][NextApi]_vars

(***************************************************************************)
(* One call of a helper or of a transformer utility, on arrays the caller  *)
(* owns                                                                    *)
(***************************************************************************)
\* strictly increasing axes and arbitrary sample sequences
Axes ==
    {s \in UNION {[1..n -> 0..MaxQ] : n \in 1..MaxPts} : StrictlyIncreasing(s)}

Samples == UNION {[1..n -> 0..(MaxQ - 1)] : n \in 1..MaxPts}

UniformAxes ==
    {[k \in 1..n |-> x0 + (k - 1) * d] : x0 \in 1..MaxX0, d \in 1..MaxD, n \in 2..MaxN}

\* the heaps of the helper calls: arrays 1 and 2 are data, array 3 a grid
DataHeaps == {<<<<1, 2>>, <<3, 0, 5>>, <<1, 2>>>>, <<<<4, 4, 1>>, <<2, 7>>, <<0, 1, 3>>>>}

\* q, S(Q), dr and g(r) of qmin_correction, in fixed point
QminHeaps ==
    {<<<<1000, 2000, 3000>>, <<800, 1100, 900>>, dr, gofr>> :
        dr \in {<<2000, 3000>>, <<500, 1500>>},
        gofr \in {<<0, 0>>, <<1000, 1200>>, <<500, 700, 900>>, <<300>>}}

InitPure ==
    /\ kwargs \in {c \in ApiConfigs : ~c.hasRealSpaceFunction /\ ~c.hasFourierFilter}
    /\ stog = NewStoG
    /\ pc = "pure"
    /\ fi = 1
    /\ locals = NoLocals
    /\ events = <<>>
    /\ err = ""
    /\ last = NoLast
    /\ ncalls = 0
    /\ heap = <<>>
    /\ call = NoCall

\* the caller's arrays are h when it calls the helper
HelperCall(op, h, ids, res) ==
    /\ heap' = res.heap
    /\ call' = [op |-> op, ids |-> ids, before |-> h, rets |-> res.rets,
                val |-> res.val, err |-> res.err]
    /\ UNCHANGED <<kwargs, stog, pc, fi, locals, events, err, last, ncalls>>

PureScale ==
    /\ pc = "pure"
    /\ call = NoCall
    /\ \E h \in DataHeaps, data \in 1..3, s \in 0..2 :
        HelperCall("scale", h, <<data>>, scale_call(h, data, s))

PureOffset ==
    /\ pc = "pure"
    /\ call = NoCall
    /\ \E h \in DataHeaps, data \in 1..3, o \in 0..2 :
        HelperCall("offset", h, <<data>>, offset_call(h, data, o))

PureApplyScalesAndOffset ==
    /\ pc = "pure"
    /\ call = NoCall
    /\ \E h \in DataHeaps, x \in 1..3, y \in 1..3, a \in 1..2, b \in 0..1 :
        HelperCall("apply_scales_and_offset", h, <<x, y>>,
                   apply_scales_and_offset_call(h, x, y, a, b, b))

PureLowRMeanSquare ==
    /\ pc = "pure"
    /\ call = NoCall
    /\ \E h \in DataHeaps, gofr \in 1..2 :
        HelperCall("lowR_mean_square", h, <<3, gofr>>,
                   lowR_mean_square_call(h, 3, gofr, LowRLimit))

PureQminCorrection ==
    /\ pc = "pure"
    /\ call = NoCall
    /\ \E h \in QminHeaps, lorch \in BOOLEAN :
        HelperCall("qmin_correction", h, <<1, 2, 3, 4>>,
                   qmin_correction_call(h, 1, 2, 3, 4, lorch))

\* qmin_correction called twice with the same arrays q, sofq, dr and gofr
PureQminCorrectionTwice ==
    /\ pc = "pure"
    /\ call = NoCall
    /\ \E h \in QminHeaps, lorch \in BOOLEAN :
        LET first  == qmin_correction_call(h, 1, 2, 3, 4, lorch)
            second == qmin_correction_call(first.heap, 1, 2, 3, 4, lorch)
        IN  /\ first.err = ""
            /\ heap' = second.heap
            /\ call' = [op |-> "qmin_correction_twice", ids |-> <<1, 2, 3, 4>>, before |-> h,
                        lorch |-> lorch,
                        first |-> first.heap[first.rets[1]],
                        second |-> second.heap[second.rets[1]],
                        err |-> second.err]
            /\ UNCHANGED <<kwargs, stog, pc, fi, locals, events, err, last, ncalls>>

\* the cropping of add_dataset (line 127) on a dataset of the caller
PureCrop ==
    /\ pc = "pure"
    /\ call = NoCall
    /\ \E x \in Axes, lo \in 0..(MaxQ + 1), hi \in 0..(MaxQ + 1) :
        LET info == FileInfo("S(Q)", x, [i \in DOMAIN x |-> 10 * i + 1], lo, hi, 1, 0, 0)
        IN  /\ call' = [op |-> "apply_cropping", info |-> info, out |-> add_dataset_crop(info)]
            /\ UNCHANGED <<kwargs, stog, pc, fi, locals, events, err, last, ncalls, heap>>

\* apply_cropping applied to its own result, with the same bounds
PureCropTwice ==
    /\ pc = "pure"
    /\ call = NoCall
    /\ \E x \in Samples, lo \in 0..MaxQ, hi \in 0..MaxQ :
        LET y      == [i \in DOMAIN x |-> 10 * i + 1]
            first  == apply_cropping(x, y, lo, hi)
            second == apply_cropping(first.x, first.y, lo, hi)
        IN  /\ call' = [op |-> "crop_twice", x |-> x, y |-> y, lo |-> lo, hi |-> hi,
                        first |-> first, second |-> second]
            /\ UNCHANGED <<kwargs, stog, pc, fi, locals, events, err, last, ncalls, heap>>

PureExtendAxis ==
    /\ pc = "pure"
    /\ call = NoCall
    /\ \E x \in UniformAxes :
        /\ call' = [op |-> "_extend_axis_to_low_end", x |-> x, out |-> extend_axis_to_low_end(x)]
        /\ UNCHANGED <<kwargs, stog, pc, fi, locals, events, err, last, ncalls, heap>>

\* Converter.F_to_S on the F(Q) of an S(Q) of the caller
PureFToS ==
    /\ pc = "pure"
    /\ call = NoCall
    /\ \E q \in Axes, sq \in Samples :
        /\ Len(q) = Len(sq)
        /\ call' = [op |-> "F_to_S", q |-> q, sq |-> sq, fq |-> S_to_F(q, sq),
                    defined |-> F_to_S_defined(q),
                    out |-> IF F_to_S_defined(q) THEN F_to_S(q, S_to_F(q, sq)) ELSE <<>>]
        /\ UNCHANGED <<kwargs, stog, pc, fi, locals, events, err, last, ncalls, heap>>

NextPure ==
    \/ PureScale
    \/ PureOffset
    \/ PureApplyScalesAndOffset
    \/ PureLowRMeanSquare
    \/ PureQminCorrection
    \/ PureQminCorrectionTwice
    \/ PureCrop
    \/ PureCropTwice
    \/ PureExtendAxis
    \/ PureFToS

SpecPure == InitPure /\ [][NextPure]_vars

(***************************************************************************)
(* An instance built from a configuration of physical parameters and of    *)
(* the real-space grid, and one call of create_dr or of add_keen_fq        *)
(***************************************************************************)
\* Rdelta given, or Rmax / Rpoints with Rpoints a divisor of Rmax
GridChoices ==
    { g \in [Rmax : 1..MaxRmax, hasRdelta : BOOLEAN, Rdelta : 1..MaxRdelta,
             Rpoints : 1..MaxRdelta] :
        IF g.hasRdelta THEN g.Rpoints = 1
        ELSE g.Rdelta = 1 /\ g.Rmax % g.Rpoints = 0 }

ParamConfigs ==
    { [c EXCEPT !.bcoh_sqrd = b, !.Rmax = g.Rmax, !.Rpoints = g.Rpoints,
                !.hasRdelta = g.hasRdelta, !.Rdelta = g.Rdelta] :
        c \in {k \in ApiConfigs : ~k.hasRealSpaceFunction /\ ~k.hasFourierFilter},
        b \in 1..MaxB,
        g \in GridChoices }

InitParams ==
    /\ kwargs \in ParamConfigs
    /\ stog = NewStoG
    /\ pc = "params"
    /\ fi = 1
    /\ locals = NoLocals
    /\ events = <<>>
    /\ err = ""
    /\ last = NoLast
    /\ ncalls = 0
    /\ heap = <<>>
    /\ call = NoCall

ParamsCreateDr ==
    /\ pc = "params"
    /\ call = NoCall
    /\ LET res == create_dr(stog)
       IN  /\ stog' = res.self
           /\ events' = events \o res.ev
           /\ err' = res.err
    /\ call' = [op |-> "create_dr"]
    /\ UNCHANGED <<kwargs, pc, fi, locals, last, ncalls, heap>>

\* add_keen_fq on an S(Q) of the caller, on the grid 1, 2, ...
ParamsAddKeenFq ==
    /\ pc = "params"
    /\ call = NoCall
    /\ \E sq \in Samples :
        LET q   == [i \in DOMAIN sq |-> i]
            res == add_keen_fq(stog, q, Num(sq))
        IN  /\ stog' = res.self
            /\ events' = events \o res.ev
            /\ err' = res.err
            /\ call' = [op |-> "add_keen_fq", q |-> q, sq |-> sq]
    /\ UNCHANGED <<kwargs, pc, fi, locals, last, ncalls, heap>>

NextParams ==
    \/ ParamsCreateDr
    \/ ParamsAddKeenFq

SpecParams == InitParams /\ [][NextParams]_vars

(***************************************************************************)
(* Properties of the __main__ script                                       *)
(***************************************************************************)
IsWrite(e, suffix) == e.kind = "write" /\ e.name = stem_name \o suffix

IsCall(e, entries) == e.kind = "call" /\ e.name \in entries

\* the stage of the pipeline an effect belongs to
StageOf(e) ==
    CASE IsWrite(e, ".sq") -> 1
      [] IsCall(e, {"apply_cropping", "F_to_S", "FK_to_S", "DCS_to_S"}) -> 1
      [] IsCall(e, {"S_to_g", "S_to_G", "S_to_GK"}) /\ ~e.lorch -> 2
      [] IsWrite(e, ".gr") -> 2
      [] IsCall(e, {"g_using_S", "G_using_S", "GK_using_S"}) -> 3
      [] e.kind = "write" /\ e.name = "ft.dat" -> 3
      [] IsWrite(e, "_ft.sq") \/ IsWrite(e, "_ft.gr") -> 3
      [] IsCall(e, {"S_to_g", "S_to_G", "S_to_GK"}) /\ e.lorch -> 4
      [] IsWrite(e, "_ft_lorched.gr") -> 4
      [] IsWrite(e, "_rmc.fq") \/ IsWrite(e, "_rmc.gr") -> 5
      [] OTHER -> 0

Stages == [i \in DOMAIN events |-> StageOf(events[i])]

NumCalls(stage) ==
    Cardinality({i \in DOMAIN events : Stages[i] = stage /\ events[i].kind = "call"})

Written(suffix) == \E i \in DOMAIN events : IsWrite(events[i], suffix)

\* C1: in a run of the script that reaches its end, the effects come in the
\* order merge (1), initial transform (2), Fourier filter (3), Lorch
\* recomputation (4), Keen normalisation (5); no file is written twice and no
\* stage transforms twice; stages 1, 2 and 5 happened, stage 5 is the last,
\* and stage 4 happened exactly when LorchFlag is set.
C1_StageOrder ==
    pc = "done" =>
        /\ \A i \in 1..(Len(events) - 1) : Stages[i] <= Stages[i + 1]
        /\ \A i, j \in DOMAIN events :
               (events[i].kind = "write" /\ events[i] = events[j]) => i = j
        /\ NumCalls(2) = 1 /\ NumCalls(3) <= 1 /\ NumCalls(4) <= 1
        /\ Written(".sq") /\ Written(".gr") /\ Written("_rmc.fq") /\ Written("_rmc.gr")
        /\ Stages[Len(events)] = 5
        /\ (4 \in Range(Stages)) <=> kwargs.LorchFlag

C1_Witness ==
    /\ pc = "done"
    /\ Len(kwargs.Files) = 2
    /\ {3, 4} \subseteq Range(Stages)

\* C2: add_dataset of a dataset whose ReciprocalFunction tag is no reciprocal
\* kind ends in an error and adds no column to df_individuals.
C2_UnknownKindIsError ==
    (last.op = "add_dataset" /\ last.info.ReciprocalFunction \notin ReciprocalSpaceChoices)
        => (err /= "" /\ ~HasColumn(stog.df_individuals, ColumnName(last.info)))

\* C3: when the run fails because the real-space function is unknown, the run
\* has written no output file.
C3_NoOutputOnUnknownRealSpace ==
    (pc = "failed" /\ err = "Unknown real space function")
        => \A i \in DOMAIN events : events[i].kind /= "write"

\* C5: when a DCS(Q) file meets a configuration without <b_tot^2>, the error
\* comes before any numerical work: no dataset has been cropped or converted
\* and df_individuals has no column.
C5_MissingBtotBeforeWork ==
    err = "AttributeError: btot_sqrd"
        => (stog.df_individuals = <<>> /\ \A i \in DOMAIN events : events[i].kind /= "call")

NoSampleInRange(info) ==
    \A i \in DOMAIN info.x : ~(info.Qmin <= info.x[i] /\ info.x[i] <= info.Qmax)

\* C8: add_dataset of a dataset with no sample in [Qmin, Qmax] (in particular
\* with Qmin > Qmax) ends in the error of the cropping, right after the call
\* of apply_cropping, and leaves df_individuals, xmin and xmax as they were.
C8_EmptyCropIsError ==
    [][(last'.op = "add_dataset" /\ fi' = fi + 1 /\ NoSampleInRange(last'.info))
          => /\ err' = "EmptyRangeError"
             /\ events' = events \o <<CallEv("apply_cropping", FALSE),
                                      RaiseEv("EmptyRangeError")>>
             /\ stog'.df_individuals = stog.df_individuals
             /\ stog'.xmin = stog.xmin
             /\ stog'.xmax = stog.xmax]_vars

C8_Witness ==
    /\ last.op = "add_dataset"
    /\ last.info.Qmin > last.info.Qmax
    /\ NoSampleInRange(last.info)
    /\ Len(stog.df_individuals) = 1
    /\ err = "EmptyRangeError"

\* the positions of the raw samples of a dataset that lie in [Qmin, Qmax]
InRange(info) ==
    SelectSeq([i \in DOMAIN info.x |-> i],
              LAMBDA i : info.Qmin <= info.x[i] /\ info.x[i] <= info.Qmax)

\* C16: add_dataset of an S(Q) dataset with a raw sample in [Qmin, Qmax] adds
\* a column with one entry per raw sample (x, y) with Qmin <= x <= Qmax, in
\* order, at Q = x + Xoffset with the value Yscale * y + Yoffset.
C16_CropThenScaleThenOffset ==
    (/\ last.op = "add_dataset"
     /\ last.info.ReciprocalFunction = "S(Q)"
     /\ ~NoSampleInRange(last.info)) =>
        /\ err = ""
        /\ HasColumn(stog.df_individuals, ColumnName(last.info))
        /\ LET info == last.info
               keep == InRange(info)
               col  == GetColumn(stog.df_individuals, ColumnName(info))
           IN  /\ col.x = [j \in DOMAIN keep |-> info.x[keep[j]] + info.Xoffset]
               /\ col.v = Num([j \in DOMAIN keep |->
                                  info.Yscale * info.y[keep[j]] + info.Yoffset])

\* a dataset scaled by 2 and offset by 2, then one cropped to its raw x in
\* [2, 3] and shifted by 1
C16_Witness ==
    /\ last.op = "add_dataset"
    /\ err = ""
    /\ last.info.Xoffset = 1
    /\ last.info.Qmin = 2
    /\ Len(stog.df_individuals) = 2
    /\ stog.df_individuals[1] = Column("S(Q)_0", <<1, 2, 3>>, Num(<<4, 6, 8>>))
    /\ stog.df_individuals[2] = Column("S(Q)_1", <<3, 4>>, Num(<<6, 8>>))

\* the datasets with a sample at Q, and the sum of their values there
ColumnsAt(df, Q) == {i \in DOMAIN df : Q \in Range(df[i].x)}

ValueAt(col, Q) == col.v.n[CHOOSE j \in DOMAIN col.x : col.x[j] = Q]

RECURSIVE SumAt(_, _, _)
SumAt(df, I, Q) ==
    IF I = {} THEN 0
    ELSE LET i == CHOOSE k \in I : TRUE
         IN  ValueAt(df[i], Q) + SumAt(df, I \ {i}, Q)

LatestSq ==
    IF HasColumn(stog.df_sq_master, sq_ft_title)
    THEN GetColumn(stog.df_sq_master, sq_ft_title)
    ELSE GetColumn(stog.df_sq_master, sq_title)

LatestGr ==
    IF HasColumn(stog.df_gr_master, gr_ft_title)
    THEN GetColumn(stog.df_gr_master, gr_ft_title)
    ELSE GetColumn(stog.df_gr_master, gr_title)

\* C19: in a run that reaches its end, the filter columns exist exactly when
\* the filter stage ran; the Lorch recomputation transforms the latest S(Q)
\* (the filtered one if the filter ran, else the merged one) on the latest r
\* grid; F(Q) RMC is the normalisation of the latest S(Q); G(r) RMC is the
\* normalisation of the Lorched curve if LorchFlag is set, else of the
\* filtered real-space curve if the filter ran, else of the initial one.
C19_LatestCurveConsumed ==
    pc = "done" =>
        LET ran   == \E i \in DOMAIN events : StageOf(events[i]) = 3
            sqc   == LatestSq
            grc   == LatestGr
            lor   == Transform(apply_lorch_entry(real_space_function), sqc.x, sqc.v, grc.x,
                               TRUE, transform_rho(real_space_function))
            final == IF kwargs.LorchFlag THEN lor.gr ELSE grc.v
        IN  /\ ran <=> HasColumn(stog.df_sq_master, sq_ft_title)
            /\ ran <=> HasColumn(stog.df_gr_master, gr_ft_title)
            /\ ran => sqc.v /= GetColumn(stog.df_sq_master, sq_title).v
            /\ GetColumn(stog.df_sq_master, fq_rmc_title) = Column(fq_rmc_title, sqc.x, Keen(sqc.v))
            /\ kwargs.LorchFlag =>
                   GetColumn(stog.df_gr_master, gr_lorch_title)
                       = Column(gr_lorch_title, grc.x, lor.gr)
            /\ GetColumn(stog.df_gr_master, gr_rmc_title) = Column(gr_rmc_title, grc.x, Keen(final))

C19_Witness ==
    /\ pc = "done"
    /\ kwargs.LorchFlag
    /\ HasColumn(stog.df_sq_master, sq_ft_title)
    /\ HasColumn(stog.df_gr_master, gr_lorch_title)
    /\ locals.sq = GetColumn(stog.df_sq_master, sq_ft_title).v
    /\ locals.sq /= locals.sofq
    /\ locals.gr_out = GetColumn(stog.df_gr_master, gr_lorch_title).v

\* C20: every call of a filter entry point has lorch = false, whatever
\* LorchFlag and the real-space function are; a call with lorch = true is a
\* call of S_to_g, S_to_G or S_to_GK made by apply_lorch, in a run with
\* LorchFlag set, and there is at most one.
C20_FilterNeverLorch ==
    /\ \A i \in DOMAIN events :
           IsCall(events[i], {"g_using_S", "G_using_S", "GK_using_S"}) => ~events[i].lorch
    /\ \A i \in DOMAIN events :
           events[i].lorch =>
               /\ IsCall(events[i], {"S_to_g", "S_to_G", "S_to_GK"})
               /\ kwargs.LorchFlag
               /\ pc \in {"keen_fq", "keen_gr", "done", "failed"}
               /\ \A j \in DOMAIN events : events[j].lorch => j = i

C20_Witness ==
    /\ pc = "done"
    /\ kwargs.LorchFlag
    /\ real_space_function = "GK(r)"
    /\ \E i \in DOMAIN events : events[i] = CallEv("GK_using_S", FALSE)
    /\ \E i \in DOMAIN events : events[i] = CallEv("S_to_GK", TRUE)

\* C14: a run started from a command line without --fourier-filter-cutoff
\* skips the Fourier filter stage: no filter entry point is called, no filter
\* file is written, and after the stage q, sq, r and gr_out are still the
\* merged S(Q) and the initially transformed curve.
C14_NoCutoffSkipsFilter ==
    (kwargs.cli /\ kwargs.CutoffIsNone) =>
        /\ \A i \in DOMAIN events : StageOf(events[i]) /= 3
        /\ pc \in {"lorch", "keen_fq", "keen_gr", "done"} =>
               /\ locals.q = GetColumn(stog.df_sq_master, sq_title).x
               /\ locals.sq = GetColumn(stog.df_sq_master, sq_title).v
               /\ locals.r = GetColumn(stog.df_gr_master, gr_title).x
               /\ locals.gr_out = locals.gofr

(***************************************************************************)
(* Properties of the methods                                               *)
(***************************************************************************)
\* C4: fourier_filter and apply_lorch, called while real_space_function is
\* none of g(r), G(r), GK(r), raise before any effect: the instance (with
\* df_sq_master and df_gr_master) is unchanged, and the only new effect is
\* the exception: no file is written and no entry point is called.
C4_UnknownRealSpaceNoEffect ==
    [][(/\ ncalls' = ncalls + 1
        /\ last'.op \in {"fourier_filter", "apply_lorch"}
        /\ real_space_function \notin RealSpaceChoices)
          => /\ err' /= ""
             /\ stog' = stog
             /\ Len(events') = Len(events) + 1
             /\ SubSeq(events', 1, Len(events)) = events
             /\ events'[Len(events')].kind = "raise"]_vars

C4_Witness ==
    /\ last.op = "fourier_filter"
    /\ err = "Unknown real space function"
    /\ HasColumn(stog.df_gr_master, gr_title)
    /\ HasColumn(stog.df_sq_master, sq_title)
    /\ ~DfEmpty(stog.df_sq_master)

(***************************************************************************)
(* Properties of the helpers and of the transformer utilities              *)
(***************************************************************************)
HelperOps ==
    {"scale", "offset", "apply_scales_and_offset", "lowR_mean_square", "qmin_correction"}

\* C6: after a call of scale, offset, apply_scales_and_offset,
\* lowR_mean_square or qmin_correction every array argument holds the values
\* it held before the call, and an array returned is none of the arguments.
C6_NoArgumentMutated ==
    call.op \in HelperOps =>
        /\ \A k \in DOMAIN call.ids : heap[call.ids[k]] = call.before[call.ids[k]]
        /\ \A k \in DOMAIN call.rets : call.rets[k] \notin Range(call.ids)

\* C7: on a strictly increasing X with a sample in [min, max], the cropping of
\* add_dataset returns one contiguous run of (X, Y), in order and paired,
\* that holds exactly the samples with min <= X[i] <= max.
C7_CropIsTheRange ==
    (call.op = "apply_cropping" /\ ~NoSampleInRange(call.info)) =>
        LET X == call.info.x
            Y == call.info.y
        IN  /\ call.out.ok
            /\ Len(call.out.x) = Len(call.out.y)
            /\ \E a \in DOMAIN X : \E b \in a..Len(X) :
                   /\ call.out.x = SubSeq(X, a, b)
                   /\ call.out.y = SubSeq(Y, a, b)
                   /\ \A i \in DOMAIN X :
                          (a <= i /\ i <= b) <=> (call.info.Qmin <= X[i] /\ X[i] <= call.info.Qmax)

C7_Witness ==
    /\ call.op = "apply_cropping"
    /\ Len(call.info.x) = 3
    /\ call.info.x[2] = call.info.Qmin
    /\ call.info.x[3] = call.info.Qmax
    /\ call.out.x = Tail(call.info.x)
    /\ call.out.y = <<21, 31>>

\* C9: a second cropping with the same bounds min <= max returns what the
\* first, successful cropping returned.
C9_CropIdempotent ==
    (call.op = "crop_twice" /\ call.lo <= call.hi /\ call.first.ok)
        => call.second = call.first

C9_Witness ==
    /\ call.op = "crop_twice"
    /\ call.lo < call.hi
    /\ call.first.ok
    /\ Len(call.first.x) = 2
    /\ Len(call.x) = 3
    /\ call.second.ok

\* C10: for a uniformly spaced X with step D and first point above zero,
\* _extend_axis_to_low_end(X) is uniformly spaced with step D, ends at the
\* last point of X, starts in (0, D] and has X as its tail.
C10_ExtendedAxis ==
    call.op = "_extend_axis_to_low_end" =>
        LET X   == call.x
            out == call.out
            D   == X[2] - X[1]
        IN  /\ \A i \in 1..(Len(out) - 1) : out[i + 1] - out[i] = D
            /\ Len(out) >= Len(X)
            /\ out[Len(out)] = X[Len(X)]
            /\ 0 < out[1] /\ out[1] <= D
            /\ SubSeq(out, Len(out) - Len(X) + 1, Len(out)) = X

\* the axis of the test, in units of 0.05: 0.5 .. 1.0 gives 0.05 .. 1.0
C10_Witness ==
    /\ call.op = "_extend_axis_to_low_end"
    /\ call.x = [k \in 1..11 |-> 9 + k]
    /\ call.out[1] = 1
    /\ call.out[Len(call.out)] = 20
    /\ Len(call.out) = 20

\* C11: for a Q grid without the point Q = 0 and every S(Q) on it, F_to_S of
\* F = Q(S - 1) is S again, point by point, with one value per point of Q.
C11_FToSInvertsSToF ==
    (call.op = "F_to_S" /\ call.defined) =>
        /\ Len(call.out) = Len(call.q)
        /\ \A i \in DOMAIN call.q : call.out[i] = call.sq[i]

C11_Witness ==
    /\ call.op = "F_to_S"
    /\ call.defined
    /\ call.q = <<1, 2, 4>>
    /\ call.sq = <<0, 3, 2>>
    /\ call.fq = <<-1, 4, 4>>
    /\ call.out = call.sq

\* C13: each of two calls of qmin_correction with the same q, sofq, dr, lorch
\* and the same transformed curve gofr returns that curve plus one correction
\* term.
C13_CorrectionNotDoubled ==
    (call.op = "qmin_correction_twice" /\ call.err = "") =>
        LET h    == call.before
            corr == Correction(h[1], h[2], h[3], h[4], call.lorch)
            once == [i \in DOMAIN h[4] |-> h[4][i] + corr[i]]
        IN  call.first = once /\ call.second = once

(***************************************************************************)
(* Properties of the normalisation and of the real-space grid              *)
(***************************************************************************)
\* C12: the column F(Q) RMC that add_keen_fq emits for an S(Q) is on the Q
\* grid it was given, holds bcoh_sqrd * (S - 1) at every Q, and FK_to_S with
\* the same bcoh_sqrd turns it back into that S(Q).
C12_KeenInvertsFKToS ==
    call.op = "add_keen_fq" =>
        /\ err = ""
        /\ HasColumn(stog.df_sq_master, fq_rmc_title)
        /\ LET col == GetColumn(stog.df_sq_master, fq_rmc_title)
           IN  /\ col.x = call.q
               /\ IsNum(col.v)
               /\ Len(col.v.n) = Len(call.sq)
               /\ \A i \in DOMAIN call.sq : col.v.n[i] = bcoh_sqrd * (call.sq[i] - 1)
               /\ FK_to_S(col.x, col.v.n, bcoh_sqrd) = call.sq

C12_Witness ==
    /\ call.op = "add_keen_fq"
    /\ bcoh_sqrd = 3
    /\ call.sq = <<0, 3, 1>>
    /\ GetColumn(stog.df_sq_master, fq_rmc_title).v = Num(<<-3, 6, 0>>)
    /\ \E i \in DOMAIN events : IsWrite(events[i], "_rmc.fq")

\* C18: the grid create_dr builds is exactly Rdelta, 2 Rdelta, ... up to the
\* last multiple of Rdelta that is not greater than Rmax.
C18_GridWithinRmax ==
    (call.op = "create_dr" /\ err = "") =>
        stog.dr = [k \in 1..(kwargs.Rmax \div Rdelta) |-> k * Rdelta]

====
